---- MODULE Spec2Model ----
(***************************************************************************)
(* Model of src/bot.py: one Streamlit session of the chat front-end.       *)
(*                                                                         *)
(* The script is a sequential program that is re-run on every widget       *)
(* event.  pc is the position of the current script run inside the         *)
(* chat_form submit handler (lines 158-201); "idle" means no run is in     *)
(* progress and the page waits for the next widget event.                  *)
(*                                                                         *)
(* Text is a sequence of one-character strings, so that str.strip, the     *)
(* truthiness of a string and += on strings are computed and not assumed.  *)
(* temperature and top_p are carried in tenths (0.6 is 6).                 *)
(* The model selector (lines 134-143) is not part of the model.            *)
(***************************************************************************)
EXTENDS Integers, Sequences, FiniteSets, TLC

VARIABLES
    history,            \* st.session_state.conversation_history
    selected_option,    \* value of the "Choose response length" radio
    response_options,   \* the module-level preset table (lines 27-31)
    pc,                 \* position of the script run in the submit handler
    user_input,         \* text of the last "Send" event
    request,            \* arguments of the create() call in flight
    assistant_response, \* local of the handler (line 186)
    delivered,          \* chunks the for loop has pulled from the stream
    signal,             \* error report of the last submit cycle
    last_action,        \* last widget event of the session
    appended_by,        \* per stored turn: how its cycle ended
    backend_raised,     \* where the backend raised in the last submit cycle
    cleared_turns       \* turns the last "Clear Chat" discarded

vars == <<history, selected_option, response_options, pc, user_input, request,
          assistant_response, delivered, signal, last_action, appended_by,
          backend_raised, cleared_turns>>

(***************************************************************************)
(* Bounds                                                                  *)
(***************************************************************************)
\* Spec: long histories, short streams.
MaxHist == 6        \* a message is accepted while the history is shorter
MaxChunks == 1      \* chunks a backend stream delivers at most
\* SpecStream: short histories, long streams.
StreamMaxHist == 2
StreamMaxChunks == 3

(***************************************************************************)
(* Data                                                                    *)
(***************************************************************************)
Whitespace == {" ", "\t"}

\* Texts typed into the "Message:" field.
Inputs == { <<>>, <<" ">>, <<"\t", " ">>, <<" ", "a", " ">> }

OptionNames == {"Short", "Balanced", "Long"}

\* Lines 27-31.
ResponseOptionsTable ==
    [o \in OptionNames |->
        CASE o = "Short"    -> [max_tokens |-> 256,  temperature |-> 6, top_p |-> 6]
          [] o = "Balanced" -> [max_tokens |-> 1024, temperature |-> 7, top_p |-> 7]
          [] o = "Long"     -> [max_tokens |-> 2048, temperature |-> 8, top_p |-> 8]]

Turn(role, content) == [role |-> role, content |-> content]

\* Line 167.
SystemTurn == Turn("system", <<"S">>)

\* What iterating the stream can yield: a chunk whose delta carries text, a
\* chunk whose delta.content is empty or None, and a None chunk (line 194).
Chunk(isNone, content) == [none |-> isNone, content |-> content]
NoneChunk == Chunk(TRUE, <<>>)
Chunks == { Chunk(FALSE, <<"x">>), Chunk(FALSE, <<"y">>), Chunk(FALSE, <<>>), NoneChunk }

NoRequest == [messages |-> <<>>, max_tokens |-> 0, temperature |-> 0, top_p |-> 0,
              stream |-> FALSE]

(***************************************************************************)
(* Pure helpers                                                            *)
(***************************************************************************)
RECURSIVE LStrip(_)
LStrip(s) == IF s # <<>> /\ Head(s) \in Whitespace THEN LStrip(Tail(s)) ELSE s

RECURSIVE RStrip(_)
RStrip(s) == IF s # <<>> /\ s[Len(s)] \in Whitespace
             THEN RStrip(SubSeq(s, 1, Len(s) - 1)) ELSE s

\* str.strip()
Strip(s) == RStrip(LStrip(s))

\* Python truthiness of a string.
Truthy(s) == Len(s) > 0

AcceptedNoStrip(input) == Truthy(input)

\* Line 162: user_input.strip() (the submit_button half is the Submit event).
Accepted(input) == Truthy(Strip(input))

\* h[-5:]
LastFive(h) == SubSeq(h, (IF Len(h) > 5 THEN Len(h) - 5 ELSE 0) + 1, Len(h))

WindowFirstFive(h) == <<SystemTurn>> \o SubSeq(h, 1, IF Len(h) > 5 THEN 5 ELSE Len(h))

\* Lines 166-169.
Window(h) == <<SystemTurn>> \o LastFive(h)

ParamsBalanced(option) == response_options["Balanced"]

\* Line 172.
Params(option) == response_options[option]

AccumulatePrepend(resp, content) == content \o resp

\* Line 192: assistant_response += chunk.choices[0].delta.content
Accumulate(resp, content) == resp \o content

\* Lines 33-69: what get_completion hands back, given whether create() raised.
get_completion(stream, createRaises) ==
    IF createRaises
    THEN IF stream THEN [value |-> "None", st_error |-> TRUE]
                   ELSE [value |-> "error string", st_error |-> FALSE]
    ELSE IF stream THEN [value |-> "stream", st_error |-> FALSE]
                   ELSE [value |-> "text", st_error |-> FALSE]

(***************************************************************************)
(* Initial state: lines 27-31, 73-74, 146 (a radio starts on its first     *)
(* option).                                                                *)
(***************************************************************************)
Init ==
    /\ history = <<>>
    /\ selected_option = "Short"
    /\ response_options = ResponseOptionsTable
    /\ pc = "idle"
    /\ user_input = <<>>
    /\ request = NoRequest
    /\ assistant_response = <<>>
    /\ delivered = <<>>
    /\ signal = "none"
    /\ last_action = "none"
    /\ appended_by = <<>>
    /\ backend_raised = "no"
    /\ cleared_turns = 0

\* A new script run starts: the locals and reports of the previous one are gone.
NewRun(event, text) ==
    /\ last_action' = event
    /\ user_input' = text
    /\ signal' = "none"
    /\ backend_raised' = "no"
    /\ assistant_response' = <<>>
    /\ delivered' = <<>>
    /\ request' = NoRequest

\* Line 199 and 201: the assistant turn is stored and the script reruns.
AppendAssistant(how) ==
    /\ history' = Append(history, Turn("assistant", assistant_response))
    /\ appended_by' = Append(appended_by, how)
    /\ assistant_response' = <<>>
    /\ delivered' = <<>>
    /\ request' = NoRequest
    /\ pc' = "idle"

(***************************************************************************)
(* Widget events                                                           *)
(***************************************************************************)
\* Line 146: another response length is chosen; the script reruns without a
\* submit.
SelectOption ==
    /\ pc = "idle"
    /\ \E o \in OptionNames \ {selected_option} :
        /\ selected_option' = o
        /\ NewRun("radio", <<>>)
    /\ cleared_turns' = 0
    /\ UNCHANGED <<history, response_options, pc, appended_by>>

ClearChatKeepsFirst ==
    /\ pc = "idle"
    /\ history' = SubSeq(history, 1, IF Len(history) > 0 THEN 1 ELSE 0)
    /\ appended_by' = SubSeq(appended_by, 1, IF Len(history) > 0 THEN 1 ELSE 0)
    /\ NewRun("clear", <<>>)
    /\ cleared_turns' = Len(history)
    /\ UNCHANGED <<selected_option, response_options, pc>>

\* Lines 152-154.
ClearChat ==
    /\ pc = "idle"
    /\ history' = <<>>
    /\ appended_by' = <<>>
    /\ NewRun("clear", <<>>)
    /\ cleared_turns' = Len(history)
    /\ UNCHANGED <<selected_option, response_options, pc>>

\* Lines 158-163: "Send" is pressed with some text in the field.
Submit(maxHist) ==
    /\ pc = "idle"
    /\ \E input \in Inputs :
        /\ NewRun("submit", input)
        /\ IF Accepted(input)
           THEN /\ Len(history) < maxHist
                /\ history' = Append(history, Turn("user", input))
                /\ appended_by' = Append(appended_by, "user")
                /\ pc' = "spinner"
           ELSE UNCHANGED <<history, appended_by, pc>>
    /\ cleared_turns' = 0
    /\ UNCHANGED <<selected_option, response_options>>

(***************************************************************************)
(* The submit handler after the user turn is stored                        *)
(***************************************************************************)
\* Lines 165-182: the window and the parameters are built and create() is
\* called with stream=True.
CallCompletion ==
    /\ pc = "spinner"
    /\ request' = [messages    |-> Window(history),
                   max_tokens  |-> Params(selected_option).max_tokens,
                   temperature |-> Params(selected_option).temperature,
                   top_p       |-> Params(selected_option).top_p,
                   stream      |-> TRUE]
    /\ pc' = "awaiting"
    /\ UNCHANGED <<history, selected_option, response_options, user_input,
                   assistant_response, delivered, signal, last_action, appended_by,
                   backend_raised, cleared_turns>>

\* create() raises (lines 65-68): st.error, response is None, the loop is
\* skipped (line 189) and the empty assistant_response is stored (line 199).
CreateRaises ==
    /\ pc = "awaiting"
    /\ LET r == get_completion(request.stream, TRUE) IN
        /\ r.value = "None"
        /\ signal' = IF r.st_error THEN "st_error" ELSE "none"
    /\ backend_raised' = "create"
    /\ AppendAssistant("failed")
    /\ UNCHANGED <<selected_option, response_options, user_input, last_action,
                   cleared_turns>>

\* create() returns the stream (line 63); the for loop starts (line 190).
CreateReturns ==
    /\ pc = "awaiting"
    /\ get_completion(request.stream, FALSE).value = "stream"
    /\ pc' = "streaming"
    /\ UNCHANGED <<history, selected_option, response_options, user_input, request,
                   assistant_response, delivered, signal, last_action, appended_by,
                   backend_raised, cleared_turns>>

\* Lines 190-193: the stream yields a chunk that is not None.
StreamChunk(maxChunks) ==
    /\ pc = "streaming"
    /\ Len(delivered) < maxChunks
    /\ \E chunk \in Chunks :
        /\ ~chunk.none
        /\ delivered' = Append(delivered, chunk)
        /\ assistant_response' =
              IF Truthy(chunk.content)
              THEN Accumulate(assistant_response, chunk.content)
              ELSE assistant_response
    /\ UNCHANGED <<history, selected_option, response_options, pc, user_input, request,
                   signal, last_action, appended_by, backend_raised, cleared_turns>>

\* Lines 194-195 and 199: the stream yields None; the loop breaks and what
\* was accumulated is stored.
StreamNoneChunk ==
    /\ pc = "streaming"
    /\ NoneChunk \in Chunks
    /\ AppendAssistant("complete")
    /\ UNCHANGED <<selected_option, response_options, user_input, signal, last_action,
                   backend_raised, cleared_turns>>

\* The stream is exhausted; lines 199-201.
StreamEnd ==
    /\ pc = "streaming"
    /\ AppendAssistant("complete")
    /\ UNCHANGED <<selected_option, response_options, user_input, signal, last_action,
                   backend_raised, cleared_turns>>

StreamRaisesAppends ==
    /\ pc = "streaming"
    /\ signal' = "exception"
    /\ backend_raised' = "stream"
    /\ history' = Append(history, Turn("assistant", assistant_response))
    /\ appended_by' = Append(appended_by, "complete")
    /\ pc' = "idle"
    /\ request' = NoRequest
    /\ UNCHANGED <<selected_option, response_options, user_input, assistant_response,
                   delivered, last_action, cleared_turns>>

\* The backend raises while the stream is iterated (line 190).  The loop is
\* outside get_completion's try block, so the exception leaves the handler:
\* lines 199 and 201 are not reached and the script run ends.
StreamRaises ==
    /\ pc = "streaming"
    /\ signal' = "exception"
    /\ backend_raised' = "stream"
    /\ pc' = "idle"
    /\ request' = NoRequest
    /\ UNCHANGED <<history, selected_option, response_options, user_input,
                   assistant_response, delivered, last_action, appended_by,
                   cleared_turns>>

Run(maxHist, maxChunks) ==
    \/ SelectOption
    \/ ClearChat
    \/ Submit(maxHist)
    \/ CallCompletion
    \/ CreateRaises
    \/ CreateReturns
    \/ StreamChunk(maxChunks)
    \/ StreamNoneChunk
    \/ StreamEnd
    \/ StreamRaises

Next == Run(MaxHist, MaxChunks)

Spec == Init /\ [][Next]_vars

NextStream == Run(StreamMaxHist, StreamMaxChunks)

SpecStream == Init /\ [][NextStream]_vars

TypeOK ==
    /\ pc \in {"idle", "spinner", "awaiting", "streaming"}
    /\ selected_option \in OptionNames
    /\ signal \in {"none", "st_error", "exception"}
    /\ last_action \in {"none", "radio", "clear", "submit"}
    /\ backend_raised \in {"no", "create", "stream"}
    /\ cleared_turns \in Nat
    /\ Len(appended_by) = Len(history)

(***************************************************************************)
(* Properties                                                              *)
(***************************************************************************)
Min(a, b) == IF a < b THEN a ELSE b

InFlight == pc \in {"awaiting", "streaming"}

LastTurn == history[Len(history)]

\* Every character is whitespace (the empty text included).
IsBlank(s) == \A i \in 1..Len(s) : s[i] \in Whitespace

\* The texts of a sequence of chunks, joined in order.
RECURSIVE ConcatContents(_)
ConcatContents(cs) ==
    IF cs = <<>> THEN <<>> ELSE Head(cs).content \o ConcatContents(Tail(cs))

\* While a call is in flight its messages are the system turn and then the
\* last min(5, len(H)) stored turns, in order.
C1_WindowMessages ==
    InFlight =>
        LET m == request.messages
            k == Min(5, Len(history))
        IN  /\ Len(m) = k + 1
            /\ m[1] = SystemTurn
            /\ \A i \in 1..k : m[i + 1] = history[Len(history) - k + i]
            /\ Cardinality({i \in 1..Len(m) : m[i].role = "system"}) = 1

\* C1: the messages of the completion call are one system turn followed by
\* the last min(5, len(H)) turns of the stored history H in their order, so
\* min(5, len(H)) + 1 messages; building them leaves H as it was.
C1_WindowIsLastFive ==
    /\ []C1_WindowMessages
    /\ [][pc = "spinner" => history' = history]_vars

C1_Witness ==
    /\ pc = "awaiting"
    /\ Len(history) > 5
    /\ Len(request.messages) = 6
    /\ request.messages[2] = history[Len(history) - 4]

\* C2: a "Send" whose text is empty or only whitespace leaves the history
\* as it was and starts no completion call.
C2_BlankSubmitIgnored ==
    [][(pc = "idle" /\ last_action' = "submit" /\ IsBlank(user_input'))
        => (history' = history /\ pc' = "idle" /\ request' = NoRequest)]_vars

C2_Witness ==
    /\ last_action = "submit"
    /\ user_input = <<"\t", " ">>
    /\ pc = "idle"
    /\ Len(history) = 2
    /\ request = NoRequest

\* C3: when the backend raises while the stream is consumed, the loop ends,
\* an error is signalled, and the text accumulated so far is not stored as an
\* assistant turn: the history still ends with the user turn of the cycle.
C3_MidStreamRaiseNotStored ==
    backend_raised = "stream" =>
        /\ pc = "idle"
        /\ signal # "none"
        /\ Len(history) > 0
        /\ LastTurn.role = "user"
        /\ appended_by[Len(history)] = "user"

C3_Witness ==
    /\ backend_raised = "stream"
    /\ assistant_response = <<"x", "y">>
    /\ Len(delivered) = 3
    /\ LastTurn = Turn("user", user_input)

\* C4: every failure of the backend is caught inside get_completion: none
\* reaches the submit handler as an exception, and with stream=True the
\* failure is reported by st.error and None is returned.
C4_AllFailuresCaught ==
    backend_raised # "no" => signal = "st_error"

\* C5: the request carries the max_tokens, temperature and top_p of the
\* selected response length, Short (256, 0.6, 0.6), Balanced (1024, 0.7, 0.7),
\* Long (2048, 0.8, 0.8), and the preset table is never changed.
C5_ParamsOfSelectedProfile ==
    /\ InFlight =>
          <<request.max_tokens, request.temperature, request.top_p>> =
              CASE selected_option = "Short"    -> <<256, 6, 6>>
                [] selected_option = "Balanced" -> <<1024, 7, 7>>
                [] selected_option = "Long"     -> <<2048, 8, 8>>
    /\ InFlight => request.stream
    /\ DOMAIN response_options = {"Short", "Balanced", "Long"}
    /\ response_options["Short"] = [max_tokens |-> 256, temperature |-> 6, top_p |-> 6]
    /\ response_options["Balanced"] = [max_tokens |-> 1024, temperature |-> 7, top_p |-> 7]
    /\ response_options["Long"] = [max_tokens |-> 2048, temperature |-> 8, top_p |-> 8]

C5_Witness ==
    /\ pc = "awaiting"
    /\ selected_option = "Long"
    /\ request.max_tokens = 2048
    /\ Len(history) > 1

\* C6: "Clear Chat" empties the history from any state, a second clear
\* changes nothing, and the window of the cleared history is the system turn
\* alone.
C6_ClearEmptiesHistory ==
    /\ [](last_action = "clear" =>
            /\ history = <<>>
            /\ Len(Window(history)) = 1
            /\ Window(history)[1] = SystemTurn)
    /\ [][(last_action = "clear" /\ last_action' = "clear") => history' = history]_vars

C6_Witness ==
    /\ last_action = "clear"
    /\ cleared_turns > 2
    /\ history = <<>>

\* C8: the assistant turn stored by a cycle in which the backend did not
\* raise is the texts of the chunks pulled from the stream, joined in the
\* order they arrived, and nothing is stored while chunks are still pulled.
C8_TurnIsConcatenationInOrder ==
    [][/\ (pc = "streaming" /\ pc' = "streaming") => history' = history
       /\ (pc = "streaming" /\ Len(history') > Len(history) /\ backend_raised' = "no")
             => /\ history' = Append(history, Turn("assistant", ConcatContents(delivered)))
                /\ pc' = "idle"]_vars

C8_Witness ==
    /\ pc = "idle"
    /\ Len(history) = 2
    /\ appended_by[2] = "complete"
    /\ history[2] = Turn("assistant", <<"y", "x", "x">>)

\* C9: an assistant turn stored by a cycle whose completion call failed
\* differs from every assistant turn stored by a cycle that completed.
C9_FailedTurnsMarked ==
    \A i, j \in 1..Len(history) :
        (appended_by[i] = "failed" /\ appended_by[j] = "complete")
            => history[i] # history[j]

\* C10: between cycles the history has even length and its roles alternate
\* user, assistant, starting with user; no system turn is stored.
C10_HistoryAlternates ==
    pc = "idle" =>
        /\ Len(history) % 2 = 0
        /\ \A i \in 1..Len(history) :
              history[i].role = IF i % 2 = 1 THEN "user" ELSE "assistant"

====
